---- MODULE Spec2Model ----
(***************************************************************************)
(* Model of youtube/tester.youtube.js: the local harness that runs a       *)
(* connector against a Playwright session through a page shim.             *)
(*                                                                         *)
(*   - the main IIFE (lines 149-237): session launch, the result Promise   *)
(*     (setData override, connector load, fallback, safety timer), the     *)
(*     try/catch around it, context.close(), the result check and write;   *)
(*   - createPageShim().setData (lines 71-79);                             *)
(*   - createPageShim().promptUser with waitForEnter (lines 38-46,         *)
(*     108-143).                                                           *)
(*                                                                         *)
(* JavaScript runs one job at a time: every action below is one job (a     *)
(* synchronous segment together with the microtasks it triggers) or a      *)
(* prefix of one.  Time is abstracted: a timer that is armed may fire at   *)
(* any later step.                                                         *)
(***************************************************************************)
EXTENDS Naturals, FiniteSets, Sequences, TLC

(* ---------------------------------------------------------------------- *)
(* Bounds                                                                  *)
(* ---------------------------------------------------------------------- *)
\* number of setData calls the connector makes in one run
MaxEmits == 2
\* number of predicate invocations of one promptUser gate
MaxPolls == 2

(* ---------------------------------------------------------------------- *)
(* JavaScript values, by the properties the harness looks at               *)
(* ---------------------------------------------------------------------- *)
\* "null"  : null                     (falsy)
\* "zero"  : a falsy value that is not null, e.g. 0, "" or false
\* "objA", "objB" : two distinct JSON-serializable non-empty objects
\* "circ"  : a non-empty object JSON.stringify() throws on (circular)
Values == {"null", "zero", "objA", "objB", "circ"}

\* what a connector may throw / reject with: null, or an Error object
Thrown == {"null", "errBoom"}

\* markers that are not JavaScript values
None == "none"

\* JS truthiness: !v is false
Truthy(v) == v \in {"objA", "objB", "circ"}

\* typeof v === 'object' && v !== null   (line 72)
IsObject(v) == v \in {"objA", "objB", "circ"}

\* JSON.stringify(v) throws (lines 73, 235)
StringifyThrows(v) == v = "circ"

\* err.message throws a TypeError (line 209): property access on null
MessageThrows(e) == e = "null"

\* key space of setData: the reserved key and one ordinary key
Keys == {"result", "progress"}

\* completion values r of the connector's promise: absent (undefined/null),
\* or an object { success, data } whose data field is a value, None when
\* the field is missing
Completions ==
  {[present |-> FALSE, success |-> FALSE, data |-> None]}
    \cup [present : {TRUE}, success : BOOLEAN, data : Values \cup {None}]

\* outcomes of one predicate invocation inside promptUser
PredOutcomes == {"falsy", "truthy", "raise"}

VARIABLES
  pc,          \* position of the main IIFE
  session,     \* the persistent browser context: none / live / closing / closed
  overridden,  \* pageShim.setData has been replaced by the capturing version
  prom,        \* the result Promise of line 182
  timer,       \* the safety timer of line 206: unarmed / armed / fired
  conn,        \* the connector's unit of work
  ret,         \* the connector's completion value, NoRet before completion
  err,         \* what the connector threw or rejected with, None before
  result,      \* the variable `result` of line 173, "unset" before assignment
  reported,    \* console.error of line 209 has run
  file,        \* content of youtube-export.json, None when not written
  exitCode,    \* "running", "0", "1", or "unhandled" (unhandled rejection)
  emits,       \* number of setData calls so far
  logged,      \* number of [setData] log lines written
  hist,        \* history of the run, for stating the properties
  gate,        \* the promptUser gate
  globalPage,  \* global.page is the shim (line 171)
  backend      \* use of the Playwright page through the shim: "idle", or
               \* the latest session state an operation was issued in

vars == <<pc, session, overridden, prom, timer, conn, ret, err, result, reported,
          file, exitCode, emits, logged, hist, gate, globalPage, backend>>

(* ---------------------------------------------------------------------- *)
(* The result Promise (line 182): resolve / reject                         *)
(* ---------------------------------------------------------------------- *)
NewPromise == [state |-> "pending", value |-> None, settles |-> 0,
               first |-> <<"pending", None>>]

\* a settle function that lacks the already-resolved check
SettleAlways(p, st, v) ==
  [state |-> st, value |-> v, settles |-> p.settles + 1,
   first |-> IF p.settles = 0 THEN <<st, v>> ELSE p.first]

\* resolve(v) / reject(e) of a Promise: only the first call has an effect
Settle(p, st, v) ==
  IF p.state = "pending"
    THEN [state |-> st, value |-> v, settles |-> p.settles + 1,
          first |-> <<st, v>>]
    ELSE p

Resolve(p, v) == Settle(p, "fulfilled", v)
Reject(p, e) == Settle(p, "rejected", e)

(* ---------------------------------------------------------------------- *)
(* Initial state: the module has been loaded, the IIFE is about to run     *)
(* ---------------------------------------------------------------------- *)
\* no promptUser call yet.  promise, done, poll, polls and enter are the
\* gate's state, inflight the number of predicate calls that have not
\* returned and armed the number of poll timers that have not fired; by,
\* continued, trigger, truthy, raised and atEnter record what happened to it
NoGate == [promise |-> "none", done |-> FALSE, poll |-> "idle", polls |-> 0,
           inflight |-> 0, armed |-> 0,
           enter |-> "none", by |-> None, continued |-> 0,
           trigger |-> None, truthy |-> FALSE, raised |-> FALSE,
           atEnter |-> None]

\* arms counts the setTimeout calls for the safety timer, failed the
\* setData calls that threw, settledByKey is the key of the setData call
\* that settled the result Promise
NoHist == [firstResult |-> None, firstPending |-> FALSE,
           complEarly |-> FALSE, quietDeadline |-> FALSE, arms |-> 0,
           failed |-> 0, settledByKey |-> None]

\* no completion value (undefined)
NoRet == [present |-> FALSE, success |-> FALSE, data |-> None]

Init ==
  /\ pc = "launch"
  /\ session = "none"
  /\ overridden = FALSE
  /\ prom = NewPromise
  /\ timer = "unarmed"
  /\ conn = "unloaded"
  /\ ret = NoRet
  /\ err = None
  /\ result = "unset"
  /\ reported = FALSE
  /\ file = None
  /\ exitCode = "running"
  /\ emits = 0
  /\ logged = 0
  /\ hist = NoHist
  /\ gate = NoGate
  /\ globalPage = FALSE
  /\ backend = "idle"

(* ---------------------------------------------------------------------- *)
(* Scheduling                                                              *)
(* ---------------------------------------------------------------------- *)
\* the event loop can run a job: the main IIFE is suspended at an await or
\* has returned, and the process has not exited
AsyncOK == pc \in {"await", "closing", "done"}

\* connector code can run: synchronously inside require() (line 193), or
\* later as a job of its own (its async body, or work it left behind)
ConnCanRun == pc = "require" \/ (AsyncOK /\ conn # "unloaded")

(* ---------------------------------------------------------------------- *)
(* Main IIFE, lines 149-237                                                *)
(* ---------------------------------------------------------------------- *)
\* lines 156-171: launch the context, open the page, build the shim and
\* install it as global.page
Launch ==
  /\ pc = "launch"
  /\ pc' = "coordinate"
  /\ session' = "live"
  /\ globalPage' = TRUE
  /\ UNCHANGED backend
  /\ UNCHANGED <<overridden, prom, timer, conn, ret, err, result, reported,
                 file, exitCode, emits, logged, hist, gate>>

\* an executor that loads the connector before it replaces setData
StartCoordinatorLoadFirst ==
  /\ pc = "coordinate"
  /\ pc' = "require"
  /\ conn' = "loading"
  /\ UNCHANGED <<session, overridden, prom, timer, ret, err, result, reported,
                 file, exitCode, emits, logged, hist, gate, globalPage,
                 backend>>

\* lines 182-193: the Promise executor starts: setData is overridden, then
\* require() begins to execute the connector's top level
StartCoordinator ==
  /\ pc = "coordinate"
  /\ pc' = "require"
  /\ overridden' = TRUE
  /\ conn' = "loading"
  /\ UNCHANGED <<globalPage, backend>>
  /\ UNCHANGED <<session, prom, timer, ret, err, result, reported, file,
                 exitCode, emits, logged, hist, gate>>

\* lines 201-206: require() throws e: reject(e), then the timer is armed and
\* the IIFE awaits the Promise
LoadThrow ==
  /\ pc = "require"
  /\ \E e \in Thrown :
       /\ prom' = Reject(prom, e)
       /\ err' = e
  /\ conn' = "threw"
  /\ timer' = "armed"
  /\ hist' = [hist EXCEPT !.arms = @ + 1]
  /\ pc' = "await"
  /\ UNCHANGED <<globalPage, backend>>
  /\ UNCHANGED <<session, overridden, ret, result, reported, file, exitCode,
                 emits, logged, gate>>

\* a load path that returns without setting the safety timer
LoadReturnNoTimer ==
  /\ pc = "require"
  /\ \E thenable \in BOOLEAN :
       conn' = IF thenable THEN "running" ELSE "detached"
  /\ pc' = "await"
  /\ UNCHANGED <<session, overridden, prom, timer, ret, err, result, reported,
                 file, exitCode, emits, logged, hist, gate, globalPage,
                 backend>>

\* lines 193-200, 206: require() returns; when the export is a thenable the
\* fallback and the rejection handler are attached (conn = "running"),
\* otherwise nothing observes the connector (conn = "detached")
LoadReturn ==
  /\ pc = "require"
  /\ \E thenable \in BOOLEAN :
       conn' = IF thenable THEN "running" ELSE "detached"
  /\ timer' = "armed"
  /\ hist' = [hist EXCEPT !.arms = @ + 1]
  /\ pc' = "await"
  /\ UNCHANGED <<globalPage, backend>>
  /\ UNCHANGED <<session, overridden, prom, ret, err, result, reported, file,
                 exitCode, emits, logged, gate>>

\* a completion value { success, data } with a non-empty data field
NonEmptyData(d) == d \in {"objA", "objB", "circ"}
UsableCompletion(r) == r.present /\ NonEmptyData(r.data)

\* a fallback that never fires
FallbackNever(r) == FALSE

\* a fallback test that looks at r only
FallbackValidAnyData(r) == r.present

\* line 198: r && r.data
FallbackValid(r) == r.present /\ r.data # None /\ Truthy(r.data)

\* lines 195-199: the connector's promise fulfils with r; the fallback
\* resolves with r.data when (r && r.data)
ConnComplete ==
  /\ AsyncOK
  /\ conn = "running"
  /\ \E r \in Completions :
       /\ ret' = r
       /\ prom' = IF FallbackValid(r) THEN Resolve(prom, r.data) ELSE prom
       /\ hist' = [hist EXCEPT !.complEarly = (timer # "fired")]
  /\ conn' = "completed"
  /\ UNCHANGED <<globalPage, backend>>
  /\ UNCHANGED <<pc, session, overridden, timer, err, result, reported, file,
                 exitCode, emits, logged, gate>>

\* line 199: the connector's promise rejects with e: .catch(reject)
ConnReject ==
  /\ AsyncOK
  /\ conn = "running"
  /\ \E e \in Thrown :
       /\ err' = e
       /\ prom' = Reject(prom, e)
  /\ conn' = "rejected"
  /\ UNCHANGED <<globalPage, backend>>
  /\ UNCHANGED <<pc, session, overridden, timer, ret, result, reported, file,
                 exitCode, emits, logged, hist, gate>>

\* the value the safety timer resolves with
TimeoutValue == "null"

\* line 206: the safety timer fires: resolve(null)
TimerFire ==
  /\ AsyncOK
  /\ timer = "armed"
  /\ timer' = "fired"
  /\ prom' = Resolve(prom, TimeoutValue)
  /\ hist' = [hist EXCEPT !.quietDeadline =
                 /\ hist.firstResult = None
                 /\ ~(conn = "completed" /\ UsableCompletion(ret))]
  /\ UNCHANGED <<globalPage, backend>>
  /\ UNCHANGED <<pc, session, overridden, conn, ret, err, result, reported,
                 file, exitCode, emits, logged, gate>>

\* lines 207-213: the await of the result Promise returns or throws.
\* Fulfilled: result is the value.  Rejected: the catch block evaluates
\* err.message; when that throws (err is null) the IIFE itself rejects and
\* nothing after line 209 runs; otherwise the error is logged and result is
\* null.  Then context.close() is called.
Resume ==
  /\ pc = "await"
  /\ prom.state # "pending"
  /\ IF prom.state = "rejected" /\ MessageThrows(prom.value)
       THEN /\ pc' = "crashed"
            /\ exitCode' = "unhandled"
            /\ UNCHANGED <<result, reported, session>>
       ELSE /\ pc' = "closing"
            /\ session' = "closing"
            /\ result' = IF prom.state = "fulfilled" THEN prom.value
                                                     ELSE "null"
            /\ reported' = (prom.state = "rejected")
            /\ UNCHANGED exitCode
  /\ UNCHANGED <<globalPage, backend>>
  /\ UNCHANGED <<overridden, prom, timer, conn, ret, err, file, emits, logged,
                 hist, gate>>

\* line 213: context.close() completes
CloseContext ==
  /\ pc = "closing"
  /\ pc' = "check"
  /\ session' = "closed"
  /\ UNCHANGED <<globalPage, backend>>
  /\ UNCHANGED <<overridden, prom, timer, conn, ret, err, result, reported,
                 file, exitCode, emits, logged, hist, gate>>

\* a check that treats only null as "no result"
NoResultNullOnly(v) == v = "null"

\* line 215: !result
NoResult(v) == ~Truthy(v)

\* lines 215-236: no result: exit(1).  Otherwise the summary is printed and
\* JSON.stringify(result) is written to the output file; when stringify
\* throws, the IIFE rejects and no file is written.
Finish ==
  /\ pc = "check"
  /\ IF NoResult(result)
       THEN /\ pc' = "exited"
            /\ exitCode' = "1"
            /\ UNCHANGED file
       ELSE IF StringifyThrows(result)
         THEN /\ pc' = "crashed"
              /\ exitCode' = "unhandled"
              /\ UNCHANGED file
         ELSE /\ pc' = "done"
              /\ exitCode' = "0"
              /\ file' = result
  /\ UNCHANGED <<globalPage, backend>>
  /\ UNCHANGED <<session, overridden, prom, timer, conn, ret, err, result,
                 reported, emits, logged, hist, gate>>

(* ---------------------------------------------------------------------- *)
(* pageShim.setData, lines 71-79, and its override, lines 185-188          *)
(* ---------------------------------------------------------------------- *)
\* lines 71-79: the original setData throws when the value is an object
\* JSON.stringify cannot serialize, otherwise it writes one log line
OriginalThrows(value) == IsObject(value) /\ StringifyThrows(value)

\* an override that resolves for every key
CaptureAnyKey(key, value, p) ==
  IF ~OriginalThrows(value) THEN Resolve(p, value) ELSE p

\* an override that resolves before (and whatever) the original does
CaptureFirst(key, value, p) ==
  IF key = "result" THEN Resolve(p, value) ELSE p

\* lines 185-188: originalSetData(key, value), then resolve(value) for the
\* key 'result'; a throw of the original skips the resolve
Capture(key, value, p) ==
  IF ~OriginalThrows(value) /\ key = "result" THEN Resolve(p, value) ELSE p

\* the connector calls page.setData(key, value): the capturing version once
\* it is installed, the logging original of lines 71-79 before
SetData ==
  /\ ConnCanRun
  /\ globalPage
  /\ emits < MaxEmits
  /\ \E key \in Keys, value \in Values :
       /\ logged' = IF OriginalThrows(value) THEN logged ELSE logged + 1
       /\ prom' = IF overridden THEN Capture(key, value, prom) ELSE prom
       /\ hist' = [hist EXCEPT
            !.firstResult = IF key = "result" /\ @ = None THEN value ELSE @,
            !.firstPending = IF key = "result" /\ hist.firstResult = None
                               THEN prom.state = "pending" ELSE @,
            !.failed = IF OriginalThrows(value) THEN @ + 1 ELSE @,
            !.settledByKey = IF prom.state = "pending"
                                /\ prom'.state # "pending" THEN key ELSE @]
  /\ emits' = emits + 1
  /\ UNCHANGED <<globalPage, backend>>
  /\ UNCHANGED <<pc, session, overridden, timer, conn, ret, err, result,
                 reported, file, exitCode, gate>>

(* ---------------------------------------------------------------------- *)
(* The other shim operations, lines 57-98                                  *)
(* ---------------------------------------------------------------------- *)
\* goto, evaluate and showBrowser call the Playwright page (lines 58, 63,
\* 92); sleep, setProgress and goHeadless do not touch it
BackendOps == {"goto", "evaluate", "showBrowser"}
ShimOps == BackendOps \cup {"sleep", "setProgress", "goHeadless"}

\* the later of two session states, in the order of the session's life
LaterUse(b, st) ==
  IF b = "closed" \/ st = "closed" THEN "closed"
  ELSE IF b = "closing" \/ st = "closing" THEN "closing"
  ELSE "live"

\* a shim whose operations push the safety deadline back: the timer is
\* cleared and set again on every call
ShimCallRearms ==
  /\ ConnCanRun
  /\ globalPage
  /\ \E op \in ShimOps :
       backend' = IF op \in BackendOps THEN LaterUse(backend, session)
                                       ELSE backend
  /\ timer' = IF timer = "unarmed" THEN timer ELSE "armed"
  /\ hist' = IF timer = "unarmed" THEN hist
                                  ELSE [hist EXCEPT !.arms = @ + 1]
  /\ UNCHANGED <<pc, session, overridden, prom, conn, ret, err, result,
                 reported, file, exitCode, emits, logged, gate, globalPage>>

\* lines 57-98: the connector calls page.goto / evaluate / showBrowser /
\* sleep / setProgress / goHeadless.  The pass-throughs are issued to the
\* Playwright page in whatever state the session is; nothing else changes.
ShimCall ==
  /\ ConnCanRun
  /\ globalPage
  /\ \E op \in ShimOps :
       backend' = IF op \in BackendOps THEN LaterUse(backend, session)
                                       ELSE backend
  /\ UNCHANGED <<pc, session, overridden, prom, timer, conn, ret, err, result,
                 reported, file, exitCode, emits, logged, hist, gate,
                 globalPage>>

(* ---------------------------------------------------------------------- *)
(* pageShim.promptUser, lines 108-143, and waitForEnter, lines 38-46       *)
(* ---------------------------------------------------------------------- *)
\* a resolve that runs the caller's continuation on every call
GateResolveAlways(g, by) ==
  [g EXCEPT !.promise = "resolved", !.by = by, !.continued = @ + 1]

\* resolve() of the Promise of line 114: the first call resolves it and
\* schedules the caller's continuation, later calls do nothing
GateResolve(g, by) ==
  IF g.promise = "pending"
    THEN [g EXCEPT !.promise = "resolved", !.by = by, !.continued = @ + 1]
    ELSE g

\* lines 114-141: the connector calls page.promptUser: done = false,
\* waitForEnter() starts listening for a line, and poll() runs at once up
\* to its await: the predicate is invoked
PromptUser ==
  /\ ConnCanRun
  /\ gate.promise = "none"
  /\ gate' = [gate EXCEPT !.promise = "pending", !.done = FALSE,
                          !.enter = "listening", !.poll = "inflight",
                          !.polls = 1, !.inflight = @ + 1]
  /\ UNCHANGED <<globalPage, backend>>
  /\ UNCHANGED <<pc, session, overridden, prom, timer, conn, ret, err, result,
                 reported, file, exitCode, emits, logged, hist>>

\* a poll that treats a raising predicate as success
AfterPredicateRaiseResolves(g, outcome) ==
  IF outcome \in {"truthy", "raise"}
    THEN [GateResolve([g EXCEPT !.done = TRUE], "poll") EXCEPT
            !.poll = "stopped", !.inflight = @ - 1]
    ELSE [g EXCEPT !.poll = IF g.done THEN "stopped" ELSE "waiting",
                   !.inflight = @ - 1,
                   !.armed = IF g.done THEN @ ELSE @ + 1]

\* a poll that gives up when the predicate raises: no next poll
AfterPredicateRaiseAborts(g, outcome) ==
  IF outcome = "truthy"
    THEN [GateResolve([g EXCEPT !.done = TRUE], "poll") EXCEPT
            !.poll = "stopped", !.inflight = @ - 1]
    ELSE IF outcome = "raise"
      THEN [g EXCEPT !.poll = "stopped", !.inflight = @ - 1]
      ELSE [g EXCEPT !.poll = IF g.done THEN "stopped" ELSE "waiting",
                     !.inflight = @ - 1,
                     !.armed = IF g.done THEN @ ELSE @ + 1]

\* a poll that schedules the next poll in its catch block and again on
\* line 130
AfterPredicateDoubleSchedule(g, outcome) ==
  IF outcome = "truthy"
    THEN [GateResolve([g EXCEPT !.done = TRUE], "poll") EXCEPT
            !.poll = "stopped", !.inflight = @ - 1]
    ELSE [g EXCEPT !.poll = IF g.done THEN "stopped" ELSE "waiting",
                   !.inflight = @ - 1,
                   !.armed = IF g.done THEN @
                             ELSE IF outcome = "raise" THEN @ + 2 ELSE @ + 1]

\* lines 121-130: what poll does once `await callback()` has settled:
\* truthy: done = true; resolve(); return.  falsy or raised: schedule the
\* next poll unless done
AfterPredicate(g, outcome) ==
  IF outcome = "truthy"
    THEN [GateResolve([g EXCEPT !.done = TRUE], "poll") EXCEPT
            !.poll = "stopped", !.inflight = @ - 1]
    ELSE [g EXCEPT !.poll = IF g.done THEN "stopped" ELSE "waiting",
                   !.inflight = @ - 1,
                   !.armed = IF g.done THEN @ ELSE @ + 1]

\* the predicate invocation in flight returns falsy, truthy, or raises
PredicateReturn ==
  /\ AsyncOK
  /\ gate.poll = "inflight"
  /\ \E outcome \in PredOutcomes :
       gate' = [AfterPredicate(gate, outcome) EXCEPT
                  !.truthy = @ \/ (outcome = "truthy"),
                  !.raised = @ \/ (outcome = "raise"),
                  !.trigger = IF @ = None /\ outcome = "truthy"
                                THEN "truthy" ELSE @]
  /\ UNCHANGED <<globalPage, backend>>
  /\ UNCHANGED <<pc, session, overridden, prom, timer, conn, ret, err, result,
                 reported, file, exitCode, emits, logged, hist>>

\* a poll without the test of line 119: the predicate is invoked again
\* although the gate is done
PollTimerUnchecked ==
  /\ AsyncOK
  /\ gate.poll = "waiting"
  /\ gate.polls < MaxPolls
  /\ gate' = [gate EXCEPT !.poll = "inflight", !.polls = @ + 1,
                          !.armed = @ - 1, !.inflight = @ + 1]
  /\ UNCHANGED <<globalPage, backend>>
  /\ UNCHANGED <<pc, session, overridden, prom, timer, conn, ret, err, result,
                 reported, file, exitCode, emits, logged, hist>>

\* lines 118-121: the poll timer of line 130 fires: poll() returns when done,
\* otherwise it invokes the predicate again
PollTimer ==
  /\ AsyncOK
  /\ gate.poll = "waiting"
  /\ gate.done \/ gate.polls < MaxPolls
  /\ gate' = IF gate.done
               THEN [gate EXCEPT !.poll = "stopped", !.armed = @ - 1]
               ELSE [gate EXCEPT !.poll = "inflight", !.polls = @ + 1,
                                 !.armed = @ - 1, !.inflight = @ + 1]
  /\ UNCHANGED <<globalPage, backend>>
  /\ UNCHANGED <<pc, session, overridden, prom, timer, conn, ret, err, result,
                 reported, file, exitCode, emits, logged, hist>>

\* a handler that only records the signal and leaves resolving to the poll
\* loop while a predicate call is in flight
OnLineDeferred(g) ==
  IF g.done \/ g.poll = "inflight" THEN g
  ELSE GateResolve([g EXCEPT !.done = TRUE], "enter")

\* lines 134-139: the continuation of waitForEnter(): if (!done) { done =
\* true; resolve(); }
OnLine(g) ==
  IF g.done THEN g ELSE GateResolve([g EXCEPT !.done = TRUE], "enter")

\* lines 41-44, 134-139: the operator enters a line: rl.once('line') fires,
\* the interface is closed, waitForEnter's promise resolves and its
\* continuation runs
EnterLine ==
  /\ AsyncOK
  /\ gate.enter = "listening"
  /\ gate' = [OnLine(gate) EXCEPT
                !.enter = "received",
                !.atEnter = gate.poll,
                !.trigger = IF @ = None THEN "enter" ELSE @]
  /\ UNCHANGED <<globalPage, backend>>
  /\ UNCHANGED <<pc, session, overridden, prom, timer, conn, ret, err, result,
                 reported, file, exitCode, emits, logged, hist>>

(* ---------------------------------------------------------------------- *)
(* Specification                                                           *)
(* ---------------------------------------------------------------------- *)
Next ==
  \/ Launch
  \/ StartCoordinator
  \/ LoadThrow
  \/ LoadReturn
  \/ ConnComplete
  \/ ConnReject
  \/ TimerFire
  \/ Resume
  \/ CloseContext
  \/ Finish
  \/ SetData
  \/ ShimCall
  \/ PromptUser
  \/ PredicateReturn
  \/ PollTimer
  \/ EnterLine

Spec == Init /\ [][Next]_vars

\* The event loop runs every job that is ready: a timer that is armed fires
\* (lines 130, 206), the synchronous segments of the main IIFE run on
\* (lines 182-206, 215-236), and a predicate call that was started returns.
FairSpec ==
  /\ Spec
  /\ WF_vars(StartCoordinator)
  /\ WF_vars(LoadThrow \/ LoadReturn)
  /\ WF_vars(TimerFire)
  /\ WF_vars(Finish)
  /\ WF_vars(PollTimer)
  /\ WF_vars(PredicateReturn)

TypeOK ==
  /\ pc \in {"launch", "coordinate", "require", "await", "closing", "check",
             "done", "exited", "crashed"}
  /\ session \in {"none", "live", "closing", "closed"}
  /\ prom.state \in {"pending", "fulfilled", "rejected"}
  /\ prom.value \in Values \cup Thrown \cup {None}
  /\ timer \in {"unarmed", "armed", "fired"}
  /\ conn \in {"unloaded", "loading", "running", "detached", "completed",
               "rejected", "threw"}
  /\ ret \in Completions
  /\ result \in Values \cup {"unset"}
  /\ file \in Values \cup {None}
  /\ exitCode \in {"running", "0", "1", "unhandled"}
  /\ emits \in 0..MaxEmits
  /\ gate.polls \in 0..MaxPolls
  /\ globalPage \in BOOLEAN
  /\ backend \in {"idle", "live", "closing", "closed"}

(* ---------------------------------------------------------------------- *)
(* Properties                                                              *)
(* ---------------------------------------------------------------------- *)
\* the main IIFE has left the try/catch of lines 174-211 with an outcome
Settled == result # "unset"

\* the run is over: the IIFE returned, exited, or died of an unhandled
\* rejection
Terminal == pc \in {"done", "exited", "crashed"}

\* C1: the result Promise settles at most once; once it has settled, no
\* later trigger (second explicit result, late fallback, timer, late
\* rejection) changes its state or value, and the outcome the driver reads
\* is the one of that first settlement.
SettlesAtMostOnce ==
  /\ prom.settles <= 1
  /\ prom.state # "pending" => <<prom.state, prom.value>> = prom.first
  /\ Settled =>
       /\ prom.settles = 1
       /\ result = IF prom.first[1] = "fulfilled" THEN prom.first[2]
                                                  ELSE "null"

\* an explicit result settled the Promise, and afterwards the connector
\* rejected and the safety timer fired, without effect
LateTriggersIgnored ==
  /\ prom.first = <<"fulfilled", "objA">>
  /\ hist.firstResult = "objA"
  /\ conn = "rejected"
  /\ timer = "fired"
  /\ result = "objA"

\* C2: when the connector calls setData("result", V) while the Coordinator
\* is pending, the outcome is the V of the first such call.
FirstExplicitResultWins ==
  (hist.firstResult # None /\ hist.firstPending /\ Settled)
    => result = hist.firstResult

\* C3: with no setData("result", ...) call, a completion before the safety
\* deadline with { success: true, data: D }, D non-empty, makes D the
\* outcome.
FallbackOutcomeIsData ==
  ( /\ hist.firstResult = None
    /\ conn = "completed"
    /\ hist.complEarly
    /\ ret.present /\ ret.success /\ NonEmptyData(ret.data)
    /\ Settled )
    => result = ret.data

\* the fallback determined the outcome
FallbackUsed ==
  /\ hist.firstResult = None
  /\ conn = "completed"
  /\ hist.complEarly
  /\ ret = [present |-> TRUE, success |-> TRUE, data |-> "objB"]
  /\ result = "objB"

\* C4: when the safety timer fires and neither an explicit result nor a
\* usable completion value has arrived before, the outcome is null.
TimeoutYieldsNull ==
  (timer = "fired" /\ hist.quietDeadline /\ Settled) => result = "null"

\* the timer settled the Promise after a completion without usable data
TimedOut ==
  /\ timer = "fired"
  /\ hist.quietDeadline
  /\ conn = "completed"
  /\ prom.first = <<"fulfilled", "null">>
  /\ result = "null"

\* C5: once the connector has thrown at load time or rejected, the run does
\* not die of an unhandled rejection, and as soon as the try/catch is left
\* the outcome is null and the failure has been reported.
ConnectorErrorBecomesNull ==
  conn \in {"threw", "rejected"} =>
    /\ pc # "crashed"
    /\ pc \in {"closing", "check", "done", "exited"} =>
         (result = "null" /\ reported)

\* C6: the session is closed on every exit path, after the Coordinator has
\* settled and before the file is written or the process exits.
SessionDestroyedOnEveryExit ==
  /\ Terminal => session = "closed"
  /\ session \in {"closing", "closed"} => prom.state # "pending"
  /\ (file # None \/ exitCode # "running") => session = "closed"

\* C7: the gate resolves exactly once, by the first truthy poll or the first
\* manual signal, whichever came first; a second trigger does not run the
\* caller's continuation again.
GateResolvesOnce ==
  /\ gate.continued <= 1
  /\ (gate.promise = "resolved") <=> (gate.trigger # None)
  /\ gate.promise = "resolved" =>
       /\ gate.continued = 1
       /\ gate.by = IF gate.trigger = "truthy" THEN "poll" ELSE "enter"
  /\ gate.promise # "resolved" => gate.continued = 0

\* the manual signal resolved the gate and the predicate call that was in
\* flight returned truthy afterwards
SecondTriggerIgnored ==
  /\ gate.by = "enter"
  /\ gate.atEnter = "inflight"
  /\ gate.truthy
  /\ gate.continued = 1

\* C8: a gate resolves only after a truthy poll or a manual signal; polls
\* that raise (or return falsy) never resolve it, so without a truthy poll
\* it is pending until the manual signal and is resolved by that signal.
GateNeedsTrigger ==
  /\ gate.promise = "resolved" => (gate.truthy \/ gate.enter = "received")
  /\ (gate.promise = "resolved" /\ ~gate.truthy) => gate.by = "enter"
  /\ (gate.promise = "pending" /\ gate.raised) =>
       (gate.enter = "listening" /\ ~gate.done)

\* every poll of the gate raised or returned falsy, the bound of polls was
\* reached, and the manual signal resolved it
ResolvedBySignalAfterRaise ==
  /\ gate.raised
  /\ ~gate.truthy
  /\ gate.polls = MaxPolls
  /\ gate.promise = "resolved"
  /\ gate.by = "enter"

\* C9 as stated: the success path is taken iff the outcome is not null.
SuccessIffNonNull ==
  (Terminal /\ Settled) =>
    ((file # None /\ exitCode = "0") <=> (result # "null"))

\* C9 amended: the output file is written (with the outcome, exit code 0)
\* iff the outcome is truthy and JSON.stringify can serialize it; a falsy
\* outcome, null or not, writes no file and exits with code 1.
SuccessIffTruthy ==
  /\ ~Terminal => file = None
  /\ Terminal =>
       /\ (file # None /\ exitCode = "0")
            <=> (Settled /\ Truthy(result) /\ ~StringifyThrows(result))
       /\ file # None => file = result
       /\ (Settled /\ ~Truthy(result)) => (file = None /\ exitCode = "1")
       /\ (Settled /\ Truthy(result) /\ StringifyThrows(result))
            => (file = None /\ exitCode = "unhandled")

\* a falsy outcome that is not null took the failure path
FalsyOutcomeFails ==
  /\ pc = "exited"
  /\ result = "zero"
  /\ file = None
  /\ exitCode = "1"

\* C10: a manual signal received while the gate is pending resolves it in
\* the same step, whatever the poll loop is doing.
ManualSignalResolvesAtOnce ==
  [][ ( /\ gate.enter = "listening"
        /\ gate'.enter = "received"
        /\ gate.promise = "pending" )
      => ( /\ gate'.promise = "resolved"
           /\ gate'.by = "enter"
           /\ gate'.continued = 1 ) ]_vars

\* the signal arrived while a predicate call was in flight, after a poll
\* that raised, and the call is still in flight
ResolvedWhileInFlight ==
  /\ gate.by = "enter"
  /\ gate.atEnter = "inflight"
  /\ gate.poll = "inflight"
  /\ gate.raised
  /\ gate.promise = "resolved"

\* the process is gone: process.exit(1), or an unhandled rejection
ProcessDead == pc \in {"exited", "crashed"}

\* C11: once the gate has resolved, no predicate invocation is started and
\* no poll timer is armed any more: a timer armed before only fires into
\* the test of line 119, a call in flight only returns.
LosingPathInert ==
  [][ gate.promise = "resolved" =>
        /\ gate'.polls = gate.polls
        /\ gate'.inflight <= gate.inflight
        /\ gate'.armed <= gate.armed
        /\ gate'.poll # gate.poll => gate'.poll = "stopped" ]_vars

\* the manual signal resolved the gate while a poll timer was armed; the
\* timer fired afterwards and invoked nothing, below the bound of polls
ArmedTimerFiredInert ==
  /\ gate.by = "enter"
  /\ gate.atEnter = "waiting"
  /\ gate.poll = "stopped"
  /\ gate.armed = 0 /\ gate.inflight = 0
  /\ gate.polls < MaxPolls

\* C12: a predicate that raises or returns falsy never aborts the gate:
\* every return of the predicate on a pending gate either resolves it (a
\* truthy value) or leaves it pending with the next poll armed, and an armed
\* poll invokes the predicate again while the process lives; so a truthy
\* return after any number of failures resolves the gate without a manual
\* signal.
FlakyPredicateKeepsPolling ==
  /\ [][ ( /\ gate.promise = "pending"
           /\ gate.inflight = 1
           /\ gate'.inflight = 0 )
         => \/ /\ gate'.promise = "resolved"
               /\ gate'.by = "poll"
               /\ gate'.truthy
            \/ /\ gate'.promise = "pending"
               /\ gate'.poll = "waiting"
               /\ gate'.armed = 1 ]_vars
  /\ [][ (gate.promise = "pending" /\ ~gate.raised /\ gate'.raised)
         => (gate'.promise = "pending" /\ gate'.armed = 1) ]_vars
  /\ ( (gate.promise = "pending" /\ gate.armed = 1 /\ gate.polls < MaxPolls)
         ~> (gate.inflight = 1 \/ gate.promise = "resolved" \/ ProcessDead) )

\* the predicate raised, a later poll returned truthy and resolved the gate;
\* no manual signal was given
ResolvedAfterRaise ==
  /\ gate.raised
  /\ gate.truthy
  /\ gate.by = "poll"
  /\ gate.enter = "listening"
  /\ gate.polls = MaxPolls

\* C13: the safety timer is armed exactly once, when the connector has been
\* started (line 206), and from then on only fires: no connector activity
\* (setData, shim operations, promptUser) arms or resets it, and when it
\* fires on a pending Coordinator the Promise is fulfilled with null.
DeadlineIsAbsolute ==
  [][ /\ hist'.arms <= 1
      /\ (pc = "require" /\ pc' = "await")
           => (timer' = "armed" /\ hist'.arms = 1)
      /\ timer' # timer =>
           \/ timer = "unarmed" /\ timer' = "armed" /\ pc = "require"
           \/ timer = "armed" /\ timer' = "fired"
      /\ (timer = "armed" /\ timer' = "fired" /\ prom.state = "pending")
           => (prom'.state = "fulfilled" /\ prom'.value = "null") ]_vars

\* the connector used the page, emitted data under another key and opened
\* a gate, never emitted a result, and the timer settled the run with null
ActiveConnectorTimedOut ==
  /\ backend = "live"
  /\ emits = MaxEmits
  /\ hist.firstResult = None
  /\ gate.promise = "pending"
  /\ conn = "running"
  /\ timer = "fired"
  /\ prom.first = <<"fulfilled", "null">>
  /\ result = "null"

\* C14: a setData call settles the Coordinator only when its key is
\* "result": a call with another key leaves the result Promise as it was;
\* and every call goes through the logging setData first: each call either
\* wrote its log line or failed in the logging setData, and a value that
\* settled the Coordinator had been logged.
OnlyResultKeyCompletes ==
  /\ hist.settledByKey \in {None, "result"}
  /\ hist.firstResult = None => hist.settledByKey = None
  /\ logged + hist.failed = emits
  /\ hist.settledByKey = "result" =>
       (logged >= 1 /\ ~OriginalThrows(prom.first[2]))

\* only calls with another key were made: all were logged and the
\* Coordinator is still pending
ProgressLeavesPending ==
  /\ emits = MaxEmits
  /\ logged = MaxEmits
  /\ hist.firstResult = None
  /\ pc = "await"
  /\ timer = "armed"
  /\ conn = "running"
  /\ prom.state = "pending"

\* C15: no setData call fails, whatever its key and value, so a call
\* setData("result", V) made while the Coordinator is pending settles it
\* with V.
SetDataNeverFails ==
  /\ hist.failed = 0
  /\ (hist.firstResult # None /\ hist.firstPending)
       => prom.first = <<"fulfilled", hist.firstResult>>

\* C16: every goto / evaluate / showBrowser the connector issues through
\* the shim is issued while the session is live: none after the driver has
\* called context.close(), also by a connector whose work is still running
\* when the Coordinator has settled.
BackendOpsOnlyWhileLive ==
  conn \in {"running", "detached"} => backend \in {"idle", "live"}

\* C17: whenever connector code has started to run, the shim is installed
\* as global.page and its setData is the capturing version, so every
\* setData call goes through the override: a "result" call the logging
\* setData accepts, made while the Coordinator is pending, settles it, also
\* when it is made synchronously during the load.
InterceptionBeforeLoad ==
  /\ conn # "unloaded" => (globalPage /\ overridden /\ session # "none")
  /\ emits > 0 => overridden
  /\ ( /\ hist.firstResult # None
       /\ hist.firstPending
       /\ ~OriginalThrows(hist.firstResult) )
       => /\ hist.settledByKey = "result"
          /\ prom.first = <<"fulfilled", hist.firstResult>>

\* require() has not returned yet and a result emitted by the connector's
\* top level has settled the Coordinator
CapturedDuringLoad ==
  /\ pc = "require"
  /\ conn = "loading"
  /\ hist.firstResult = "objA"
  /\ prom.state = "fulfilled"
  /\ prom.value = "objA"

\* C18: once the session has been started, the Coordinator eventually
\* leaves PENDING, whatever the connector does: at the latest the safety
\* timer settles it.
CoordinatorEventuallySettles ==
  (session = "live") ~> (prom.state # "pending")

\* a connector that nothing observes, that called nothing and emitted
\* nothing, was settled by the safety timer
SilentConnectorSettled ==
  /\ conn = "detached"
  /\ emits = 0
  /\ backend = "idle"
  /\ gate.promise = "none"
  /\ timer = "fired"
  /\ prom.first = <<"fulfilled", "null">>

\* C19: a completion without usable data (no value, no data field, or a
\* falsy data field) leaves the result Promise as it was; when no explicit
\* result was emitted either, the Coordinator is pending until the safety
\* timer settles it with null.
UnusableCompletionIgnored ==
  [][ /\ (conn = "running" /\ conn' = "completed" /\ ~UsableCompletion(ret'))
        => prom' = prom
      /\ ( /\ conn' = "completed"
           /\ ~UsableCompletion(ret')
           /\ hist'.firstResult = None )
        => \/ prom'.state = "pending" /\ timer' # "fired"
           \/ /\ prom'.first = <<"fulfilled", "null">>
              /\ timer' = "fired"
              /\ result' \in {"unset", "null"} ]_vars

\* the connector completed with a falsy data field before the deadline and
\* emitted nothing; the timer settled the run with null
FalsyDataTimedOut ==
  /\ conn = "completed"
  /\ ret = [present |-> TRUE, success |-> TRUE, data |-> "zero"]
  /\ hist.complEarly
  /\ hist.firstResult = None
  /\ timer = "fired"
  /\ result = "null"

\* C20: at most one predicate invocation is in flight, and never together
\* with an armed poll timer: the first invocation starts in the promptUser
\* call itself, a poll timer is armed only in the step in which the call in
\* flight returns, and a further invocation starts only when that timer
\* fires.
OnePollAtATime ==
  [][ /\ gate'.inflight + gate'.armed <= 1
      /\ (gate.promise = "none" /\ gate'.promise # "none")
           => (gate'.inflight = 1 /\ gate'.polls = 1)
      /\ gate'.armed > gate.armed
           => (gate.inflight = 1 /\ gate'.inflight = 0 /\ ~gate'.truthy)
      /\ gate'.inflight > gate.inflight
           => \/ gate.promise = "none"
              \/ gate.armed = 1 /\ gate'.armed = 0
      /\ gate'.polls > gate.polls => gate'.inflight > gate.inflight ]_vars

\* the second invocation is in flight: the first one raised, its timer fired
SecondPollInFlight ==
  /\ gate.polls = 2
  /\ gate.raised
  /\ gate.inflight = 1
  /\ gate.armed = 0
  /\ gate.promise = "pending"
====
